---- MODULE Spec2Model ----
(***************************************************************************)
(* Model of the command logic (master) node of miro_teleop:                *)
(* src/miro_teleop/src/command_logic.cpp.                                  *)
(*                                                                         *)
(* The node is one thread.  Messages of the four subscribed topics wait in *)
(* the subscriber queues until ros::spinOnce() runs the callbacks; the     *)
(* services are blocking calls, so the thread's position (pc) is either    *)
(* the top of the main loop, a service call in flight, or the spinOnce at  *)
(* the end of an iteration.                                                *)
(*                                                                         *)
(* Doubles are records: Fin(n) is the finite value n, NaN, PInf and NInf   *)
(* the special values.  Lengths are centimetres, angles are multiples of   *)
(* pi/8 (atan2 is computed to that precision).  A vector of doubles is     *)
(* kept run-length encoded: a sequence of runs [n, v] (n copies of v).     *)
(***************************************************************************)
EXTENDS Integers, Sequences, FiniteSets, TLC

(* ------------------------------------------------------------------ *)
(* Program constants                                                   *)
(* ------------------------------------------------------------------ *)
RES == 40
NZ == 5
HSIZE == 400
VSIZE == 400
OBSDIM == 80
GOALDIM == 20
CmdQueueSize == 3
RobotQueueSize == 10
GestureQueueSize == 1
ObstacleQueueSize == 1

(* ------------------------------------------------------------------ *)
(* Bounds of the model: how many messages the environment sends        *)
(* ------------------------------------------------------------------ *)
MaxCmds == 2
MaxPoses == 1
\* how many robot poses arrive between iterations in SpecBurst
MaxBurst == 2

(* ------------------------------------------------------------------ *)
(* IEEE doubles                                                        *)
(* ------------------------------------------------------------------ *)
Fin(n) == [k |-> "fin", v |-> n]
NaN == [k |-> "nan", v |-> 0]
PInf == [k |-> "inf", v |-> 1]
NInf == [k |-> "inf", v |-> -1]

isfinite(f) == f.k = "fin"

\* a < b on doubles: every comparison with NaN is false
FLt(a, b) ==
  IF a.k = "nan" \/ b.k = "nan" THEN FALSE
  ELSE IF a.k = "inf" /\ b.k = "inf" THEN a.v < b.v
  ELSE IF a.k = "inf" THEN a.v < 0
  ELSE IF b.k = "inf" THEN b.v > 0
  ELSE a.v < b.v

FGt(a, b) == FLt(b, a)

Sign(n) == IF n > 0 THEN 1 ELSE IF n < 0 THEN -1 ELSE 0

\* a * b on doubles
FMul(a, b) ==
  IF a.k = "nan" \/ b.k = "nan" THEN NaN
  ELSE IF a.k = "inf" \/ b.k = "inf"
       THEN IF Sign(a.v) * Sign(b.v) = 0 THEN NaN
            ELSE [k |-> "inf", v |-> Sign(a.v) * Sign(b.v)]
  ELSE Fin(a.v * b.v)

\* a - b on doubles
FSub(a, b) ==
  IF a.k = "nan" \/ b.k = "nan" THEN NaN
  ELSE IF a.k = "inf" /\ b.k = "inf"
       THEN IF a.v = b.v THEN NaN ELSE a
  ELSE IF a.k = "inf" THEN a
  ELSE IF b.k = "inf" THEN [k |-> "inf", v |-> -b.v]
  ELSE Fin(a.v - b.v)

\* atan2(y, x) in units of pi/8: exact on the axes and the diagonals, and
\* the odd value of the open sector in between otherwise
Atan2Fin(y, x) ==
  IF y = 0 THEN (IF x >= 0 THEN 0 ELSE 8)
  ELSE IF y > 0
       THEN IF x > 0 THEN (IF y < x THEN 1 ELSE IF y = x THEN 2 ELSE 3)
            ELSE IF x = 0 THEN 4
            ELSE (IF y > -x THEN 5 ELSE IF y = -x THEN 6 ELSE 7)
       ELSE IF x > 0 THEN (IF -y < x THEN -1 ELSE IF -y = x THEN -2 ELSE -3)
            ELSE IF x = 0 THEN -4
            ELSE (IF -y > -x THEN -5 ELSE IF -y = -x THEN -6 ELSE -7)

atan2(y, x) ==
  IF y.k = "nan" \/ x.k = "nan" THEN NaN
  ELSE IF y.k = "fin" /\ x.k = "fin" THEN Fin(Atan2Fin(y.v, x.v))
  ELSE IF y.k = "fin" THEN Fin(IF x.v > 0 THEN 0 ELSE 8)
  ELSE IF x.k = "fin" THEN Fin(4 * y.v)
  ELSE Fin(IF x.v > 0 THEN 2 * y.v ELSE 6 * y.v)

\* atan2(sin(a), cos(a)): the angle a brought into (-pi, pi]
NormAngle(a) ==
  IF a.k = "fin" THEN Fin(((a.v + 7) % 16) - 7) ELSE NaN

\* lines 424-426
HeadingDelta(g, r) ==
  NormAngle(FSub(atan2(FSub(g.y, r.y), FSub(g.x, r.x)), r.theta))

(* ------------------------------------------------------------------ *)
(* Vectors of doubles, run-length encoded                              *)
(* ------------------------------------------------------------------ *)
Run(n, v) == IF n > 0 THEN <<[n |-> n, v |-> v]>> ELSE <<>>

RECURSIVE VLen(_)
VLen(vec) == IF vec = <<>> THEN 0 ELSE Head(vec).n + VLen(Tail(vec))

\* element i (from 0) of vec
RECURSIVE VAt(_, _)
VAt(vec, i) ==
  IF i < Head(vec).n THEN Head(vec).v ELSE VAt(Tail(vec), i - Head(vec).n)

\* a followed by b, adjacent equal runs merged
VCat(a, b) ==
  IF a = <<>> THEN b
  ELSE IF b = <<>> THEN a
  ELSE IF a[Len(a)].v = b[1].v
       THEN SubSeq(a, 1, Len(a) - 1)
            \o <<[n |-> a[Len(a)].n + b[1].n, v |-> b[1].v]>>
            \o Tail(b)
  ELSE a \o b

\* the first k elements of vec
RECURSIVE VTake(_, _)
VTake(vec, k) ==
  IF k <= 0 \/ vec = <<>> THEN <<>>
  ELSE IF Head(vec).n >= k THEN Run(k, Head(vec).v)
  ELSE <<Head(vec)>> \o VTake(Tail(vec), k - Head(vec).n)

(* ------------------------------------------------------------------ *)
(* Messages                                                            *)
(* ------------------------------------------------------------------ *)
Pose2D(x, y, th) == [x |-> x, y |-> y, theta |-> th]
Vector3(x, y, z) == [x |-> x, y |-> y, z |-> z]
Quat(x, y, z, w) == [x |-> x, y |-> y, z |-> z, w |-> w]
Pose(p, q) == [position |-> p, orientation |-> q]
Region(cx, cy, cz, sx, sy, sz) ==
  [center_x |-> cx, center_y |-> cy, center_z |-> cz,
   size_x |-> sx, size_y |-> sy, size_z |-> sz]

ZeroPose2D == Pose2D(Fin(0), Fin(0), Fin(0))
ZeroVector3 == Vector3(Fin(0), Fin(0), Fin(0))
ZeroPose == Pose(ZeroVector3, Quat(Fin(0), Fin(0), Fin(0), Fin(0)))
ZeroRegion == Region(Fin(0), Fin(0), Fin(0), Fin(0), Fin(0), Fin(0))

(* ------------------------------------------------------------------ *)
(* What the environment may send and the services may answer           *)
(* ------------------------------------------------------------------ *)
\* command tags published by the interpreter: look, go, stop, unknown
CmdTags == {1, 2, 3, 99}
\* ground poses in metres
RobotMsgs == {Pose2D(Fin(1), Fin(-1), Fin(4)), Pose2D(Fin(-2), Fin(0), Fin(0))}
ObstacleMsgs == {Pose2D(Fin(-1), Fin(1), Fin(2))}
GestureMsgs == {Pose(Vector3(Fin(1), Fin(0), Fin(1)),
                     Quat(Fin(0), Fin(0), Fin(0), Fin(1)))}

\* targets returned by gesture processing
TargetResponses ==
  {Pose2D(Fin(HSIZE \div 2), Fin(-(VSIZE \div 2)), Fin(0)),
   Pose2D(Fin(HSIZE \div 2 + 1), Fin(0), Fin(0)),
   Pose2D(Fin(0), NaN, Fin(0)),
   Pose2D(NInf, Fin(0), Fin(0))}
\* goals returned by the Monte Carlo simulation
GoalResponses ==
  {Pose2D(Fin(-(HSIZE \div 2)), Fin(VSIZE \div 2), Fin(0)),
   Pose2D(Fin(0), Fin(-(VSIZE \div 2) - 1), Fin(0)),
   Pose2D(NaN, Fin(0), Fin(0)),
   Pose2D(Fin(0), PInf, Fin(0))}
\* landscapes returned by the spatial reasoner and the pertinence mapper
MatricesResponses == {Run(NZ * RES * RES, Fin(1))}
LandscapeResponses ==
  {Run(RES * RES, Fin(1)),
   Run(1, NaN) \o Run(RES * RES - 1, Fin(1)),
   Run(1, Fin(0)) \o Run(RES * RES - 1, NaN)}
\* trajectories returned by the RRT* planner
PathResponses == {<<Vector3(Fin(0), Fin(0), Fin(0)), Vector3(Fin(10), Fin(10), Fin(0))>>}

(* ------------------------------------------------------------------ *)
(* State                                                               *)
(* ------------------------------------------------------------------ *)
VARIABLES
  pc,          \* position of main: "start", "init", "spat", "loop", "gest",
               \* "bounds", "pert", "mont", "rrts", "spin", "exit"
  exitStatus,  \* return value of main, -1 while it runs
  cmd, obs, robot, gesture,                        \* globals, lines 30-32
  state, enable, target, goal, matrices, landscape, rrtPath, cmd_turn,
  srv_spat, srv_gest, srv_pert, srv_mont, srv_rrts, \* service requests
  q_cmd, q_robot, q_gesture, q_obs,                \* subscriber queues
  sentCmds, sentPoses,                             \* messages sent so far
  pubs,        \* history: every message published, in order
  calls,       \* history: every service called, in order
  failed,      \* history: the service whose call failed, or "none"
  delivered,   \* history: every command tag handed to getCmd
  evald,       \* history: the main loop has tested cmd since the last delivery
  act,         \* history: the current (or last) "look" activation
  handled      \* history: the last handling of a look, go or stop tag

globals == <<cmd, obs, robot, gesture>>
locals == <<state, enable, target, goal, matrices, landscape, rrtPath, cmd_turn>>
srvs == <<srv_spat, srv_gest, srv_pert, srv_mont, srv_rrts>>
queues == <<q_cmd, q_robot, q_gesture, q_obs, sentCmds, sentPoses>>
history == <<pubs, calls, failed, delivered, evald, act, handled>>
vars == <<pc, exitStatus, globals, locals, srvs, queues, history>>

\* messages on the three outbound topics
PathMsg(p) == [topic |-> "path", path |-> p, theta |-> Fin(0), data |-> FALSE]
TurnMsg(th) == [topic |-> "turn", path |-> <<>>, theta |-> th, data |-> FALSE]
EnableMsg(b) == [topic |-> "enable", path |-> <<>>, theta |-> Fin(0), data |-> b]

NoAct ==
  [calls0 |-> 0, pubs0 |-> 0, deliv0 |-> 0, gesture |-> ZeroPose,
   robot |-> ZeroPose2D, turnRobot |-> ZeroPose2D, trace |-> <<>>,
   result |-> "none", prev |-> "none"]
NoHandled == [tag |-> 0, deliv |-> 0, calls |-> 0, pubs0 |-> 0, pubs |-> 0]

Init ==
  /\ pc = "start"
  /\ exitStatus = -1
  /\ cmd = 0
  /\ obs = ZeroPose2D
  /\ robot = ZeroPose2D
  /\ gesture = ZeroPose
  /\ state = 0
  /\ enable = FALSE
  /\ target = ZeroPose2D
  /\ goal = ZeroPose2D
  /\ matrices = Run(NZ * RES * RES, Fin(0))
  /\ landscape = Run(RES * RES, Fin(0))
  /\ rrtPath = <<>>
  /\ cmd_turn = Fin(0)
  /\ srv_spat = [center |-> ZeroPose2D, dimensions |-> <<>>]
  /\ srv_gest = [gesture |-> ZeroPose]
  /\ srv_pert = [target |-> ZeroPose2D, matrices |-> <<>>]
  /\ srv_mont = [P |-> ZeroPose2D, landscape |-> <<>>]
  /\ srv_rrts = [WS |-> ZeroRegion, Obstacles |-> <<>>,
                 Goal |-> ZeroRegion, Init |-> ZeroVector3]
  /\ q_cmd = <<>>
  /\ q_robot = <<>>
  /\ q_gesture = <<>>
  /\ q_obs = <<>>
  /\ sentCmds = 0
  /\ sentPoses = 0
  /\ pubs = <<>>
  /\ calls = <<>>
  /\ failed = "none"
  /\ delivered = <<>>
  /\ evald = TRUE
  /\ act = NoAct
  /\ handled = NoHandled

(* ------------------------------------------------------------------ *)
(* Subscriber callbacks and queues                                     *)
(* ------------------------------------------------------------------ *)
\* mutant of getCmd: a tag that was not handled yet is kept
getCmdKeepFirst(c, msg) == IF c = 0 THEN msg ELSE c

\* lines 38-42: the new value of cmd
getCmd(c, msg) == msg

\* mutant of getRobotPose: the orientation is scaled like the position
getRobotPoseScaleTheta(r, msg) ==
  Pose2D(FMul(Fin(100), msg.x), FMul(Fin(100), msg.y),
         FMul(Fin(100), msg.theta))

\* lines 48-53: the new value of robot
getRobotPose(r, msg) ==
  Pose2D(FMul(Fin(100), msg.x), FMul(Fin(100), msg.y), msg.theta)

\* lines 59-65: the new value of gesture
getGesture(g, msg) ==
  Pose(Vector3(FMul(Fin(100), msg.position.x),
               FMul(Fin(100), msg.position.y),
               FMul(Fin(100), msg.position.z)),
       msg.orientation)

\* lines 71-76: the new value of obs
getObstaclePose(o, msg) ==
  Pose2D(FMul(Fin(100), msg.x), FMul(Fin(100), msg.y), msg.theta)

\* a subscriber queue of the given size: the oldest message is dropped
Enqueue(q, msg, size) ==
  IF Len(q) < size THEN Append(q, msg) ELSE Append(Tail(q), msg)

\* the node is subscribed from line 153 until main returns
Subscribed == pc \notin {"start", "exit"}

ArriveCmd(c) ==
  /\ Subscribed
  /\ sentCmds < MaxCmds
  /\ q_cmd' = Enqueue(q_cmd, c, CmdQueueSize)
  /\ sentCmds' = sentCmds + 1
  /\ UNCHANGED <<pc, exitStatus, globals, locals, srvs, history,
                 q_robot, q_gesture, q_obs, sentPoses>>

\* mutant of ArriveRobot: the callback runs as soon as the message arrives
ArriveRobotAsync(m) ==
  /\ Subscribed
  /\ sentPoses < MaxPoses
  /\ robot' = getRobotPose(robot, m)
  /\ sentPoses' = sentPoses + 1
  /\ UNCHANGED <<pc, exitStatus, cmd, obs, gesture, locals, srvs, history,
                 q_cmd, q_robot, q_gesture, q_obs, sentCmds>>

ArriveRobot(m) ==
  /\ Subscribed
  /\ sentPoses < MaxPoses
  /\ q_robot' = Enqueue(q_robot, m, RobotQueueSize)
  /\ sentPoses' = sentPoses + 1
  /\ UNCHANGED <<pc, exitStatus, globals, locals, srvs, history,
                 q_cmd, q_gesture, q_obs, sentCmds>>

ArriveGesture(m) ==
  /\ Subscribed
  /\ sentPoses < MaxPoses
  /\ q_gesture' = Enqueue(q_gesture, m, GestureQueueSize)
  /\ sentPoses' = sentPoses + 1
  /\ UNCHANGED <<pc, exitStatus, globals, locals, srvs, history,
                 q_cmd, q_robot, q_obs, sentCmds>>

\* mutant of ArriveObstacle: the callback runs as soon as the message arrives
ArriveObstacleAsync(m) ==
  /\ Subscribed
  /\ sentPoses < MaxPoses
  /\ obs' = getObstaclePose(obs, m)
  /\ sentPoses' = sentPoses + 1
  /\ UNCHANGED <<pc, exitStatus, cmd, robot, gesture, locals, srvs, history,
                 q_cmd, q_robot, q_gesture, q_obs, sentCmds>>

ArriveObstacle(m) ==
  /\ Subscribed
  /\ sentPoses < MaxPoses
  /\ q_obs' = Enqueue(q_obs, m, ObstacleQueueSize)
  /\ sentPoses' = sentPoses + 1
  /\ UNCHANGED <<pc, exitStatus, globals, locals, srvs, history,
                 q_cmd, q_robot, q_gesture, sentCmds>>

\* the callbacks of a queue run in order of arrival
RECURSIVE RunCallbacks(_, _, _)
RunCallbacks(cb(_, _), v, q) ==
  IF q = <<>> THEN v ELSE RunCallbacks(cb, cb(v, Head(q)), Tail(q))

\* history of the tags handed to getCmd by one spinOnce: with each tag, the
\* number of publishes and calls so far, the value of cmd it overwrites and
\* whether the main loop tested cmd since the delivery before it
DeliveryLog(q, c, np, nc, ev) ==
  [i \in 1..Len(q) |->
     [tag |-> q[i], pubs0 |-> np, calls0 |-> nc,
      cmdBefore |-> IF i = 1 THEN c ELSE q[i - 1],
      prevEval |-> IF i = 1 THEN ev ELSE FALSE]]

\* lines 457-459: ros::spinOnce() runs every pending callback
SpinOnce ==
  /\ pc = "spin"
  /\ cmd' = RunCallbacks(getCmd, cmd, q_cmd)
  /\ robot' = RunCallbacks(getRobotPose, robot, q_robot)
  /\ gesture' = RunCallbacks(getGesture, gesture, q_gesture)
  /\ obs' = RunCallbacks(getObstaclePose, obs, q_obs)
  /\ q_cmd' = <<>>
  /\ q_robot' = <<>>
  /\ q_gesture' = <<>>
  /\ q_obs' = <<>>
  /\ delivered' = delivered \o DeliveryLog(q_cmd, cmd, Len(pubs), Len(calls), evald)
  /\ evald' = IF q_cmd = <<>> THEN evald ELSE FALSE
  /\ pc' = "loop"
  /\ UNCHANGED <<exitStatus, locals, srvs, sentCmds, sentPoses,
                 pubs, calls, failed, act, handled>>

(* ------------------------------------------------------------------ *)
(* main: initialization                                                *)
(* ------------------------------------------------------------------ *)
\* return from main
Exit(code) ==
  /\ pc' = "exit"
  /\ exitStatus' = code

\* lines 197-203: the obstacle region, from the obstacle pose
ObstacleRegion(o) ==
  Region(o.x, o.y, Fin(0), Fin(OBSDIM), Fin(OBSDIM), Fin(0))

\* lines 187-193: the workspace region
WorkspaceRegion ==
  Region(Fin(0), Fin(0), Fin(0), Fin(HSIZE), Fin(VSIZE), Fin(0))

\* lines 130-185: the enable flag is cleared, the topics advertised and
\* subscribed, the service clients created
Subscribe ==
  /\ pc = "start"
  /\ enable' = FALSE
  /\ pc' = "init"
  /\ UNCHANGED <<exitStatus, globals, queues, srvs, state, target, goal,
                 matrices, landscape, rrtPath, cmd_turn, history>>

\* lines 187-217: set up the regions and call the spatial reasoner
Startup ==
  /\ pc = "init"
  /\ srv_rrts' = [srv_rrts EXCEPT
                    !.WS = WorkspaceRegion,
                    !.Obstacles = Append(@, ObstacleRegion(obs))]
  /\ srv_spat' = [center |-> obs,
                  dimensions |->
                    Append(Append(srv_spat.dimensions, Fin(OBSDIM)), Fin(OBSDIM))]
  /\ calls' = Append(calls, "spat")
  /\ pc' = "spat"
  /\ UNCHANGED <<exitStatus, globals, queues, locals, srv_gest, srv_pert,
                 srv_mont, pubs, failed, delivered, evald, act, handled>>

\* mutant of SpatReturn: a failed call is logged and the main loop entered
SpatReturnNoAbort ==
  /\ pc = "spat"
  /\ \/ \E m \in MatricesResponses :
          /\ matrices' = VTake(m, NZ * RES * RES)
          /\ UNCHANGED failed
     \/ /\ failed' = "spat"
        /\ UNCHANGED matrices
  /\ pc' = "loop"
  /\ UNCHANGED <<exitStatus, globals, queues, srvs, state, enable, target,
                 goal, landscape, rrtPath, cmd_turn,
                 pubs, calls, delivered, evald, act, handled>>

\* lines 217-253: the spatial reasoner answers, or the call fails
SpatReturn ==
  /\ pc = "spat"
  /\ \/ \E m \in MatricesResponses :
          /\ matrices' = VTake(m, NZ * RES * RES)
          /\ pc' = "loop"
          /\ UNCHANGED <<exitStatus, failed>>
     \/ /\ failed' = "spat"
        /\ Exit(1)
        /\ UNCHANGED matrices
  /\ UNCHANGED <<globals, queues, srvs, state, enable, target, goal,
                 landscape, rrtPath, cmd_turn,
                 pubs, calls, delivered, evald, act, handled>>

(* ------------------------------------------------------------------ *)
(* main loop: command "look"                                           *)
(* ------------------------------------------------------------------ *)
\* -HSIZE/2 and -VSIZE/2 in C: the negated macro, divided, truncating
NegHalf(n) == -(n \div 2)
Half(n) == n \div 2

\* mutant of TargetOutOfBounds: the bounds themselves are rejected
TargetOutOfBoundsStrict(t) ==
  \/ ~FGt(t.x, Fin(NegHalf(HSIZE)))
  \/ ~FLt(t.x, Fin(Half(HSIZE)))
  \/ ~FGt(t.y, Fin(NegHalf(VSIZE)))
  \/ ~FLt(t.y, Fin(Half(VSIZE)))

\* mutant of TargetOutOfBounds: only the y coordinate is tested
TargetOutOfBoundsYOnly(t) ==
  \/ FLt(t.y, Fin(NegHalf(VSIZE)))
  \/ FGt(t.y, Fin(Half(VSIZE)))

\* lines 282-283: the target is out of the workspace
TargetOutOfBounds(t) ==
  \/ FLt(t.x, Fin(NegHalf(HSIZE)))
  \/ FGt(t.x, Fin(Half(HSIZE)))
  \/ FLt(t.y, Fin(NegHalf(VSIZE)))
  \/ FGt(t.y, Fin(Half(VSIZE)))

\* lines 349-350: the goal is out of the workspace
GoalOutOfBounds(g) ==
  \/ FLt(g.x, Fin(NegHalf(HSIZE)))
  \/ FGt(g.x, Fin(Half(HSIZE)))
  \/ FLt(g.y, Fin(NegHalf(VSIZE)))
  \/ FGt(g.y, Fin(Half(VSIZE)))

\* lines 272-273: the target is a valid number
TargetFinite(t) == isfinite(t.x) /\ isfinite(t.y)

\* mutant of LandscapeInvalid: every cell of the landscape is tested
LandscapeInvalidFull(l) == \E i \in 1..Len(l) : ~isfinite(l[i].v)

\* line 316: the mapped landscape is taken as invalid
LandscapeInvalid(l) == ~isfinite(VAt(l, 0))

\* history: the activation a after state was assigned s
Traced(a, s) == [a EXCEPT !.trace = Append(@, s)]

\* lines 431-432 (and 436, 447 are then false): the activation ends, the
\* command is reset and the iteration goes on to spinOnce
EndLook(a, res, np) ==
  /\ cmd' = 0
  /\ pc' = "spin"
  /\ act' = [a EXCEPT !.result = res]
  /\ handled' = [tag |-> 1, deliv |-> Len(delivered), calls |-> Len(calls),
                 pubs0 |-> act.pubs0, pubs |-> np]
  /\ UNCHANGED <<exitStatus, failed, calls>>

\* mutant of CallFailed: the error is logged and the loop goes on
CallFailedNoReturn(srv) ==
  /\ failed' = srv
  /\ pc' = "spin"
  /\ act' = [act EXCEPT !.result = "failed"]
  /\ UNCHANGED <<exitStatus, cmd, handled, calls>>

\* a service call failed: ROS_ERROR and return 1
CallFailed(srv) ==
  /\ failed' = srv
  /\ Exit(1)
  /\ act' = [act EXCEPT !.result = "failed"]
  /\ UNCHANGED <<cmd, handled, calls>>

\* lines 259-268: cmd is "look"; gesture processing is called
LookStart ==
  /\ pc = "loop"
  /\ cmd = 1
  /\ state' = 0
  /\ srv_gest' = [gesture |-> gesture]
  /\ calls' = Append(calls, "gest")
  /\ act' = [calls0 |-> Len(calls), pubs0 |-> Len(pubs),
             deliv0 |-> Len(delivered), gesture |-> gesture, robot |-> robot,
             turnRobot |-> ZeroPose2D, trace |-> <<0>>,
             result |-> "running", prev |-> act.result]
  /\ evald' = TRUE
  /\ pc' = "gest"
  /\ UNCHANGED <<exitStatus, globals, queues, enable, target, goal, matrices,
                 landscape, rrtPath, cmd_turn, srv_spat, srv_pert, srv_mont,
                 srv_rrts, pubs, failed, delivered, handled>>

\* lines 268-280, 289-293: gesture processing answers, or the call fails
GestReturn ==
  /\ pc = "gest"
  /\ \/ \E t \in TargetResponses :
          /\ target' = t
          /\ IF TargetFinite(t)
             THEN state' = 1 /\ act' = Traced(act, 1)
             ELSE UNCHANGED <<state, act>>
          /\ pc' = "bounds"
          /\ UNCHANGED <<exitStatus, failed>>
     \/ /\ CallFailed("gest")
        /\ UNCHANGED <<target, state>>
  /\ UNCHANGED <<globals, queues, srvs, enable, goal, matrices, landscape,
                 rrtPath, cmd_turn, pubs, calls, delivered, evald, handled>>

\* mutant of TargetBounds: pertinence mapping is called whatever the state
TargetBoundsNoGate ==
  /\ pc = "bounds"
  /\ LET oob == TargetOutOfBounds(target)
         s == IF oob THEN 0 ELSE state
         a == IF oob THEN Traced(act, 0) ELSE act
     IN /\ state' = s
        /\ srv_pert' = [target |-> target,
                        matrices |-> VCat(srv_pert.matrices,
                                          VTake(matrices, RES * RES * NZ))]
        /\ calls' = Append(calls, "pert")
        /\ act' = a
        /\ pc' = "pert"
        /\ UNCHANGED <<exitStatus, failed, cmd, handled>>
  /\ UNCHANGED <<obs, robot, gesture, queues, enable, target, goal, matrices,
                 landscape, rrtPath, cmd_turn, srv_spat, srv_gest, srv_mont,
                 srv_rrts, pubs, delivered, evald>>

\* lines 281-301: the bound conditions; pertinence mapping is called
TargetBounds ==
  /\ pc = "bounds"
  /\ LET oob == TargetOutOfBounds(target)
         s == IF oob THEN 0 ELSE state
         a == IF oob THEN Traced(act, 0) ELSE act
     IN /\ state' = s
        /\ IF s = 1
           THEN /\ srv_pert' = [target |-> target,
                                matrices |-> VCat(srv_pert.matrices,
                                                  VTake(matrices, RES * RES * NZ))]
                /\ calls' = Append(calls, "pert")
                /\ act' = a
                /\ pc' = "pert"
                /\ UNCHANGED <<exitStatus, failed, cmd, handled>>
           ELSE /\ EndLook(a, "invalid_target", Len(pubs))
                /\ UNCHANGED srv_pert
  /\ UNCHANGED <<obs, robot, gesture, queues, enable, target, goal, matrices,
                 landscape, rrtPath, cmd_turn, srv_spat, srv_gest, srv_mont,
                 srv_rrts, pubs, delivered, evald>>

\* mutant of PertReturn: the request's matrices are not cleared after the call
PertReturnNoClear ==
  /\ pc = "pert"
  /\ \/ \E r \in LandscapeResponses :
          LET l == VTake(r, RES * RES)
              s == IF LandscapeInvalid(l) THEN 0 ELSE 2
              a == Traced(act, s)
          IN /\ landscape' = l
             /\ state' = s
             /\ UNCHANGED srv_pert
             /\ IF s = 2
                THEN /\ srv_mont' = [P |-> target,
                                     landscape |-> VCat(srv_mont.landscape,
                                                        VTake(l, RES * RES))]
                     /\ calls' = Append(calls, "mont")
                     /\ act' = a
                     /\ pc' = "mont"
                     /\ UNCHANGED <<exitStatus, failed, cmd, handled>>
                ELSE /\ EndLook(a, "invalid_landscape", Len(pubs))
                     /\ UNCHANGED srv_mont
     \/ /\ CallFailed("pert")
        /\ UNCHANGED <<landscape, state, srv_pert, srv_mont>>
  /\ UNCHANGED <<obs, robot, gesture, queues, enable, target, goal, matrices,
                 rrtPath, cmd_turn, srv_spat, srv_gest, srv_rrts,
                 pubs, delivered, evald>>

\* lines 303-343: pertinence mapping answers, or the call fails; the
\* Monte Carlo simulation is called
PertReturn ==
  /\ pc = "pert"
  /\ \/ \E r \in LandscapeResponses :
          LET l == VTake(r, RES * RES)
              s == IF LandscapeInvalid(l) THEN 0 ELSE 2
              a == Traced(act, s)
          IN /\ landscape' = l
             /\ state' = s
             /\ srv_pert' = [srv_pert EXCEPT !.matrices = <<>>]
             /\ IF s = 2
                THEN /\ srv_mont' = [P |-> target,
                                     landscape |-> VCat(srv_mont.landscape,
                                                        VTake(l, RES * RES))]
                     /\ calls' = Append(calls, "mont")
                     /\ act' = a
                     /\ pc' = "mont"
                     /\ UNCHANGED <<exitStatus, failed, cmd, handled>>
                ELSE /\ EndLook(a, "invalid_landscape", Len(pubs))
                     /\ UNCHANGED srv_mont
     \/ /\ CallFailed("pert")
        /\ UNCHANGED <<landscape, state, srv_pert, srv_mont>>
  /\ UNCHANGED <<obs, robot, gesture, queues, enable, target, goal, matrices,
                 rrtPath, cmd_turn, srv_spat, srv_gest, srv_rrts,
                 pubs, delivered, evald>>

\* mutant of PlannerRequest: the obstacle region is rebuilt from the current
\* obstacle pose and pushed again
PlannerRequestRefresh(req, g, r) ==
  [req EXCEPT
     !.Goal = Region(g.x, g.y, Fin(0), Fin(GOALDIM), Fin(GOALDIM), Fin(0)),
     !.Init = Vector3(r.x, r.y, Fin(0)),
     !.Obstacles = Append(@, ObstacleRegion(obs))]

\* lines 375-390: the planner's request for goal g, the robot at r; the
\* workspace and the obstacle regions are those already in the request
PlannerRequest(req, g, r) ==
  [req EXCEPT
     !.Goal = Region(g.x, g.y, Fin(0), Fin(GOALDIM), Fin(GOALDIM), Fin(0)),
     !.Init = Vector3(r.x, r.y, Fin(0))]

\* lines 345-392: the Monte Carlo simulation answers, or the call fails;
\* the RRT* planner is called
MontReturn ==
  /\ pc = "mont"
  /\ \/ \E g \in GoalResponses :
          LET s == IF GoalOutOfBounds(g) THEN 0 ELSE 3
              a == Traced(act, s)
          IN /\ goal' = g
             /\ state' = s
             /\ srv_mont' = [srv_mont EXCEPT !.landscape = <<>>]
             /\ IF s = 3
                THEN /\ srv_rrts' = PlannerRequest(srv_rrts, g, robot)
                     /\ calls' = Append(calls, "rrts")
                     /\ act' = a
                     /\ pc' = "rrts"
                     /\ UNCHANGED <<exitStatus, failed, cmd, handled>>
                ELSE /\ EndLook(a, "invalid_goal", Len(pubs))
                     /\ UNCHANGED srv_rrts
     \/ /\ CallFailed("mont")
        /\ UNCHANGED <<goal, state, srv_mont, srv_rrts>>
  /\ UNCHANGED <<obs, robot, gesture, queues, enable, target, matrices,
                 landscape, rrtPath, cmd_turn, srv_spat, srv_gest, srv_pert,
                 pubs, delivered, evald>>

\* lines 392-432: the planner answers and the path and the turn command are
\* published, or the call fails
RrtsReturn ==
  /\ pc = "rrts"
  /\ \/ \E p \in PathResponses :
          LET dtheta == HeadingDelta(goal, robot)
          IN /\ rrtPath' = p
             /\ state' = 4
             /\ cmd_turn' = dtheta
             /\ pubs' = pubs \o <<PathMsg(p), TurnMsg(dtheta)>>
             /\ EndLook([Traced(act, 4) EXCEPT !.turnRobot = robot],
                        "published", Len(pubs) + 2)
     \/ /\ CallFailed("rrts")
        /\ UNCHANGED <<rrtPath, state, cmd_turn, pubs>>
  /\ UNCHANGED <<obs, robot, gesture, queues, srvs, enable, target, goal,
                 matrices, landscape, delivered, evald>>

(* ------------------------------------------------------------------ *)
(* main loop: commands "go" and "stop", and anything else              *)
(* ------------------------------------------------------------------ *)
\* the enable flag is set, published and the command reset
SetEnable(tag, b) ==
  /\ enable' = b
  /\ pubs' = Append(pubs, EnableMsg(b))
  /\ cmd' = 0
  /\ handled' = [tag |-> tag, deliv |-> Len(delivered), calls |-> Len(calls),
                 pubs0 |-> Len(pubs), pubs |-> Len(pubs) + 1]
  /\ evald' = TRUE
  /\ pc' = "spin"
  /\ UNCHANGED <<exitStatus, obs, robot, gesture, queues, srvs, state, target,
                 goal, matrices, landscape, rrtPath, cmd_turn,
                 calls, failed, delivered, act>>

\* mutant of TickGo: the command is not reset after it is handled
TickGoNoReset ==
  /\ pc = "loop"
  /\ cmd = 2
  /\ enable' = TRUE
  /\ pubs' = Append(pubs, EnableMsg(TRUE))
  /\ handled' = [tag |-> 2, deliv |-> Len(delivered), calls |-> Len(calls),
                 pubs0 |-> Len(pubs), pubs |-> Len(pubs) + 1]
  /\ evald' = TRUE
  /\ pc' = "spin"
  /\ UNCHANGED <<exitStatus, globals, queues, srvs, state, target,
                 goal, matrices, landscape, rrtPath, cmd_turn,
                 calls, failed, delivered, act>>

\* lines 435-444
TickGo ==
  /\ pc = "loop"
  /\ cmd = 2
  /\ SetEnable(2, TRUE)

\* mutant of TickStop: the flag is set instead of cleared
TickStopEnables ==
  /\ pc = "loop"
  /\ cmd = 3
  /\ SetEnable(3, TRUE)

\* lines 446-455
TickStop ==
  /\ pc = "loop"
  /\ cmd = 3
  /\ SetEnable(3, FALSE)

\* mutant of TickIdle: a tag that is neither look nor go stops the robot
TickIdleAsStop ==
  /\ pc = "loop"
  /\ cmd \notin {1, 2, 3}
  /\ SetEnable(cmd, FALSE)

\* lines 259, 436, 447: any other tag is ignored
TickIdle ==
  /\ pc = "loop"
  /\ cmd \notin {1, 2, 3}
  /\ evald' = TRUE
  /\ pc' = "spin"
  /\ UNCHANGED <<exitStatus, globals, queues, srvs, locals,
                 pubs, calls, failed, delivered, act, handled>>

\* line 256: ros::ok() is false, main returns 0
Shutdown ==
  /\ pc = "loop"
  /\ Exit(0)
  /\ UNCHANGED <<globals, queues, srvs, locals, history>>

(* ------------------------------------------------------------------ *)
(* Specification                                                       *)
(* ------------------------------------------------------------------ *)
Next ==
  \/ Subscribe
  \/ Startup
  \/ SpatReturn
  \/ LookStart
  \/ GestReturn
  \/ TargetBounds
  \/ PertReturn
  \/ MontReturn
  \/ RrtsReturn
  \/ TickGo
  \/ TickStop
  \/ TickIdle
  \/ SpinOnce
  \/ Shutdown
  \/ \E c \in CmdTags : ArriveCmd(c)
  \/ \E m \in RobotMsgs : ArriveRobot(m)
  \/ \E m \in GestureMsgs : ArriveGesture(m)
  \/ \E m \in ObstacleMsgs : ArriveObstacle(m)

Spec == Init /\ [][Next]_vars

(* ------------------------------------------------------------------ *)
(* Specification of bursts: the commands and up to MaxBurst robot      *)
(* poses arrive while the loop sleeps or spins, between two tests of   *)
(* the command tag                                                     *)
(* ------------------------------------------------------------------ *)
BurstCmd(c) ==
  /\ pc = "spin"
  /\ ArriveCmd(c)

BurstRobot(m) ==
  /\ pc = "spin"
  /\ sentPoses < MaxBurst
  /\ q_robot' = Enqueue(q_robot, m, RobotQueueSize)
  /\ sentPoses' = sentPoses + 1
  /\ UNCHANGED <<pc, exitStatus, globals, locals, srvs, history,
                 q_cmd, q_gesture, q_obs, sentCmds>>

NextBurst ==
  \/ Subscribe
  \/ Startup
  \/ SpatReturn
  \/ LookStart
  \/ GestReturn
  \/ TargetBounds
  \/ PertReturn
  \/ MontReturn
  \/ RrtsReturn
  \/ TickGo
  \/ TickStop
  \/ TickIdle
  \/ SpinOnce
  \/ Shutdown
  \/ \E c \in CmdTags : BurstCmd(c)
  \/ \E m \in RobotMsgs : BurstRobot(m)

SpecBurst == Init /\ [][NextBurst]_vars

(* ------------------------------------------------------------------ *)
(* Vocabulary of the properties                                        *)
(* ------------------------------------------------------------------ *)
\* the services of a "look" activation, in the documented order
Pipeline == <<"gest", "pert", "mont", "rrts">>
ActivePcs == {"gest", "bounds", "pert", "mont", "rrts"}

\* the services called since the current (or last) activation began
ActCalls == SubSeq(calls, act.calls0 + 1, Len(calls))
IsPrefix(a, b) == Len(a) <= Len(b) /\ a = SubSeq(b, 1, Len(a))
InTrace(s) == \E i \in 1..Len(act.trace) : act.trace[i] = s

\* a service of the current (or last) activation has answered
GestAnswered ==
  act.result # "none" /\ Len(ActCalls) >= 1 /\ pc # "gest" /\ failed # "gest"
TargetStageDone == GestAnswered /\ pc # "bounds"
PertAnswered ==
  act.result # "none" /\ Len(ActCalls) >= 2 /\ pc # "pert" /\ failed # "pert"
MontAnswered ==
  act.result # "none" /\ Len(ActCalls) >= 3 /\ pc # "mont" /\ failed # "mont"

\* validity of a target or goal as the specification states it: both
\* coordinates finite and within the workspace, bounds included
InWorkspace(p) ==
  /\ p.x.k = "fin" /\ p.y.k = "fin"
  /\ -(HSIZE \div 2) <= p.x.v /\ p.x.v <= HSIZE \div 2
  /\ -(VSIZE \div 2) <= p.y.v /\ p.y.v <= VSIZE \div 2

(* ------------------------------------------------------------------ *)
(* C1                                                                  *)
(* ------------------------------------------------------------------ *)
\* C1: in every "look" activation the pipeline state starts at 0 and every
\* assignment either advances it by exactly one stage or resets it to 0, so
\* PathPublished (4) is reached only through 0, 1, 2, 3, 4 in that order
\* within the activation; the services called in the activation are a
\* prefix of gesture processing, pertinence mapping, Monte Carlo, RRT* (each
\* at most once, in that order), and a stage's service is in flight only
\* while the state is the one the preceding gate sets.
C1_StagesInOrder ==
  act.result # "none" =>
    /\ act.trace[1] = 0
    /\ state = act.trace[Len(act.trace)]
    /\ \A i \in 1..(Len(act.trace) - 1) :
         act.trace[i + 1] = act.trace[i] + 1 \/ act.trace[i + 1] = 0
    /\ state = 4 => act.trace = <<0, 1, 2, 3, 4>>
    /\ Len(ActCalls) >= 1
    /\ IsPrefix(ActCalls, Pipeline)
    /\ pc = "gest" => state = 0
    /\ pc = "pert" => state = 1 /\ Len(ActCalls) = 2
    /\ pc = "mont" => state = 2 /\ Len(ActCalls) = 3
    /\ pc = "rrts" => state = 3 /\ Len(ActCalls) = 4
    /\ \A k \in 2..Len(ActCalls) : InTrace(k - 1)

\* an activation that published its path, after an earlier one
C1_Witness ==
  /\ state = 4
  /\ act.result = "published"
  /\ act.prev # "none"
  /\ ActCalls = Pipeline

(* ------------------------------------------------------------------ *)
(* C2                                                                  *)
(* ------------------------------------------------------------------ *)
\* C2: once the Monte Carlo service has answered in an activation, the
\* state was advanced to GoalValid and the RRT* service called if and only
\* if both goal coordinates are finite and within the workspace bounds
\* (so never for a goal with a NaN or infinite coordinate).
C2_GoalGate ==
  MontAnswered =>
    /\ InTrace(3) <=> InWorkspace(goal)
    /\ Len(ActCalls) = 4 <=> InWorkspace(goal)
    /\ ~InWorkspace(goal) => state = 0

(* ------------------------------------------------------------------ *)
(* C3                                                                  *)
(* ------------------------------------------------------------------ *)
\* C3: once the target stage of an activation is over, it ended in
\* TargetValid and the pertinence mapping service was called if and only if
\* both target coordinates are finite and within the workspace, bounds
\* included; otherwise it ended in Idle and the activation was given up.
C3_TargetGate ==
  TargetStageDone =>
    /\ Len(ActCalls) >= 2 <=> InWorkspace(target)
    /\ act.result = "invalid_target" <=> ~InWorkspace(target)
    /\ InTrace(1) <=> (target.x.k = "fin" /\ target.y.k = "fin")
    /\ pc = "pert" => state = 1
    /\ act.result = "invalid_target" => state = 0 /\ ActCalls = <<"gest">>

\* a target on the bounds of the workspace was accepted
C3_Witness ==
  /\ pc = "pert"
  /\ state = 1
  /\ target.x = Fin(HSIZE \div 2)
  /\ target.y = Fin(-(VSIZE \div 2))

(* ------------------------------------------------------------------ *)
(* C4                                                                  *)
(* ------------------------------------------------------------------ *)
\* C4: once a service call has failed (the spatial reasoner at startup, or
\* gesture processing, pertinence mapping, Monte Carlo or RRT* during an
\* activation) main has returned 1, and neither the failing step nor any
\* later step publishes anything.
C4_FailureIsFatal ==
  /\ [](failed # "none" => pc = "exit" /\ exitStatus = 1)
  /\ [][failed' # "none" => pubs' = pubs]_vars

\* the planner failed in an activation that came after a "go"
C4_Witness ==
  /\ failed = "rrts"
  /\ exitStatus = 1
  /\ pubs = <<EnableMsg(TRUE)>>

(* ------------------------------------------------------------------ *)
(* C5                                                                  *)
(* ------------------------------------------------------------------ *)
\* the result a stage of the current (or last) activation returned is
\* invalid, as the specification defines validity
BadTarget == TargetStageDone /\ ~InWorkspace(target)
BadLandscape == PertAnswered /\ ~isfinite(VAt(landscape, 0))
BadGoal == MontAnswered /\ ~InWorkspace(goal)

\* C5: when a stage of an activation returned an invalid result (invalid
\* target, non-finite first landscape cell, invalid goal) the state is Idle
\* and no later stage's service was called; the command tag is None at the
\* end of the activation and until another command is delivered, no service
\* is called until a new "look" is delivered, and the next "look" starts
\* from Idle with gesture processing.
C5_InvalidResultResets ==
  /\ BadTarget => state = 0 /\ ActCalls = SubSeq(Pipeline, 1, 1)
  /\ BadLandscape => state = 0 /\ ActCalls = SubSeq(Pipeline, 1, 2)
  /\ BadGoal => state = 0 /\ ActCalls = SubSeq(Pipeline, 1, 3)
  /\ (BadTarget \/ BadLandscape \/ BadGoal) =>
       /\ Len(delivered) = act.deliv0 => cmd = 0
       /\ cmd = 1 => Len(delivered) > act.deliv0
  /\ (pc = "gest" /\ act.prev \in {"invalid_target", "invalid_landscape",
                                   "invalid_goal"}) =>
       state = 0 /\ ActCalls = SubSeq(Pipeline, 1, 1)

(* ------------------------------------------------------------------ *)
(* C6                                                                  *)
(* ------------------------------------------------------------------ *)
\* the messages published since delivery d
PubsSince(d) == SubSeq(pubs, d.pubs0 + 1, Len(pubs))
CallsSince(d) == SubSeq(calls, d.calls0 + 1, Len(calls))

\* the last two tags handed to getCmd were "go" then "stop", and the main
\* loop has tested cmd since
GoThenStopHandled ==
  /\ Len(delivered) >= 2
  /\ delivered[Len(delivered) - 1].tag = 2
  /\ delivered[Len(delivered)].tag = 3
  /\ evald

\* C6 as claimed: whenever a "go" delivery is followed by a "stop" delivery
\* and the stop has been handled, exactly two enable flags were published
\* since the go was delivered, true then false, and the tag was None after
\* each of the two was handled.
C6_GoThenStop ==
  GoThenStopHandled =>
    /\ PubsSince(delivered[Len(delivered) - 1]) =
         <<EnableMsg(TRUE), EnableMsg(FALSE)>>
    /\ delivered[Len(delivered)].cmdBefore = 0
    /\ cmd = 0

\* C6 as amended: the same, for a "go" that the main loop tested before the
\* "stop" was delivered (the two were not handed over by the same spinOnce).
C6_GoHandledThenStop ==
  (GoThenStopHandled /\ delivered[Len(delivered)].prevEval) =>
    /\ PubsSince(delivered[Len(delivered) - 1]) =
         <<EnableMsg(TRUE), EnableMsg(FALSE)>>
    /\ delivered[Len(delivered)].cmdBefore = 0
    /\ cmd = 0

\* "go" was handled, then "stop" delivered and handled, and the loop is back
\* at its top
C6_Witness ==
  /\ GoThenStopHandled
  /\ delivered[Len(delivered)].prevEval
  /\ pc = "loop"
  /\ enable = FALSE

(* ------------------------------------------------------------------ *)
(* C7                                                                  *)
(* ------------------------------------------------------------------ *)
\* the last tag handed to getCmd has been handled to the end
LastHandled ==
  /\ Len(delivered) >= 1
  /\ evald
  /\ pc \in {"loop", "spin", "exit"}
  /\ failed = "none"

\* C7: once the last delivered tag has been handled, and for as long as no
\* other command is delivered, the tag is None if it was look, go or stop,
\* a "go" has produced exactly one enable publish (true) and no service
\* call, a "stop" exactly one enable publish (false) and no service call,
\* and a "look" one run of the pipeline: each service at most once and
\* either no publish or the path and the turn command.
C7_HandledOnce ==
  LastHandled =>
    LET d == delivered[Len(delivered)]
    IN /\ d.tag \in {1, 2, 3} => cmd = 0
       /\ d.tag = 2 =>
            PubsSince(d) = <<EnableMsg(TRUE)>> /\ CallsSince(d) = <<>>
       /\ d.tag = 3 =>
            PubsSince(d) = <<EnableMsg(FALSE)>> /\ CallsSince(d) = <<>>
       /\ d.tag = 1 =>
            /\ Len(CallsSince(d)) >= 1
            /\ IsPrefix(CallsSince(d), Pipeline)
            /\ \/ PubsSince(d) = <<>>
               \/ PubsSince(d) = <<PathMsg(rrtPath), TurnMsg(cmd_turn)>>

\* a single "go" was delivered and handled, and the loop has come back to
\* its top
C7_Witness ==
  /\ Len(delivered) = 1
  /\ delivered[1].tag = 2
  /\ evald
  /\ pc = "loop"
  /\ pubs = <<EnableMsg(TRUE)>>

(* ------------------------------------------------------------------ *)
(* C8                                                                  *)
(* ------------------------------------------------------------------ *)
\* C8: while the command tag is outside {1, 2, 3} no step of main calls a
\* service, publishes, or changes the pipeline state, the enable flag, the
\* stored poses or the tag; the tag changes only when a command is
\* delivered, and since the delivery of such a tag nothing was called or
\* published.
C8_UnknownTagIgnored ==
  /\ [][(pc = "loop" /\ cmd \notin {1, 2, 3}) =>
          UNCHANGED <<calls, pubs, state, enable, robot, obs, gesture, cmd,
                      target, goal, srvs>>]_vars
  /\ [][(cmd \notin {1, 2, 3} /\ cmd' # cmd) =>
          Len(delivered') > Len(delivered)]_vars
  /\ [](\A i \in 1..Len(delivered) :
          (i = Len(delivered) /\ delivered[i].tag \notin {1, 2, 3}) =>
             /\ cmd = delivered[i].tag
             /\ PubsSince(delivered[i]) = <<>>
             /\ CallsSince(delivered[i]) = <<>>)

\* tag 99 was delivered after a "go", tested, and the loop has come back to
\* its top with nothing done
C8_Witness ==
  /\ Len(delivered) = 2
  /\ delivered[1].tag = 2
  /\ delivered[2].tag = 99
  /\ delivered[2].prevEval
  /\ evald
  /\ pc = "loop"
  /\ cmd = 99
  /\ enable = TRUE

(* ------------------------------------------------------------------ *)
(* C9                                                                  *)
(* ------------------------------------------------------------------ *)
\* C9: while an activation is in progress the command tag and the stored
\* poses are those of its start; the gesture sent to gesture processing,
\* the initial position sent to the planner and the robot pose of the
\* heading correction are those of the start of the activation, so the
\* planner's initial position is the heading correction's robot position.
C9_NoDeliveryInActivation ==
  /\ pc \in ActivePcs =>
       /\ cmd = 1
       /\ gesture = act.gesture
       /\ robot = act.robot
       /\ Len(delivered) = act.deliv0
  /\ act.result # "none" => srv_gest.gesture = act.gesture
  /\ (pc = "rrts" \/ act.result = "published") =>
       srv_rrts.Init = Vector3(act.robot.x, act.robot.y, Fin(0))
  /\ act.result = "published" =>
       /\ act.turnRobot = act.robot
       /\ srv_rrts.Init = Vector3(act.turnRobot.x, act.turnRobot.y, Fin(0))
       /\ cmd_turn = HeadingDelta(goal, act.robot)

\* a robot pose arrived while the planner was running; the activation ended
\* with the pose still waiting in the queue
C9_Witness ==
  /\ act.result = "published"
  /\ pc = "spin"
  /\ q_robot # <<>>
  /\ Len(delivered) = act.deliv0
  /\ robot = act.robot

(* ------------------------------------------------------------------ *)
(* C10                                                                 *)
(* ------------------------------------------------------------------ *)
\* the number of calls of a service so far
NCalls(srv) == Cardinality({i \in 1..Len(calls) : calls[i] = srv})

\* C10: the spatial reasoner is called exactly once, before anything else:
\* until it has answered no command is delivered or handled, no other
\* service called and nothing published; if the call fails main returns 1
\* and none of these ever happens.
C10_MappingOnce ==
  /\ NCalls("spat") = (IF pc \in {"start", "init"} THEN 0 ELSE 1)
  /\ calls # <<>> => calls[1] = "spat"
  /\ (pc \in {"start", "init", "spat"} \/ failed = "spat") =>
       /\ Len(calls) <= 1
       /\ pubs = <<>>
       /\ delivered = <<>>
       /\ handled.tag = 0
       /\ act.result = "none"
       /\ cmd = 0
  /\ failed = "spat" => pc = "exit" /\ exitStatus = 1

\* the spatial reasoner failed while a command was waiting in the queue
C10_Witness ==
  /\ failed = "spat"
  /\ pc = "exit"
  /\ q_cmd # <<>>

(* ------------------------------------------------------------------ *)
(* C11                                                                 *)
(* ------------------------------------------------------------------ *)
\* a planar pose in metres as it is stored, in centimetres
Scaled2D(m) == Pose2D(Fin(100 * m.x.v), Fin(100 * m.y.v), m.theta)
\* a gesture pose in metres as it is stored
Scaled3D(m) ==
  Pose(Vector3(Fin(100 * m.position.x.v), Fin(100 * m.position.y.v),
               Fin(100 * m.position.z.v)),
       m.orientation)
LastOf(q) == q[Len(q)]
\* a step of the main loop that runs the pending callbacks
Draining == pc = "spin" /\ pc' = "loop"

\* C11: when the pending callbacks run, a robot or obstacle pose delivery
\* (x, y, theta) is stored as (100*x, 100*y, theta) and a gesture delivery
\* with its position multiplied by 100 in x, y and z and its orientation
\* unchanged; a source without a delivery keeps its stored pose, the command
\* tag is unchanged when no tag is delivered, and no other step changes a
\* stored pose.
C11_PoseScaling ==
  /\ [][Draining =>
          /\ robot' = (IF q_robot = <<>> THEN robot
                       ELSE Scaled2D(LastOf(q_robot)))
          /\ obs' = (IF q_obs = <<>> THEN obs ELSE Scaled2D(LastOf(q_obs)))
          /\ gesture' = (IF q_gesture = <<>> THEN gesture
                         ELSE Scaled3D(LastOf(q_gesture)))
          /\ q_cmd = <<>> => cmd' = cmd]_vars
  /\ [][~Draining => UNCHANGED <<robot, obs, gesture>>]_vars

\* a robot pose (1, -1, theta 4) was delivered and stored while a "look"
\* waits to be handled; the other poses are as they were
C11_Witness ==
  /\ pc = "loop"
  /\ cmd = 1
  /\ robot = Pose2D(Fin(100), Fin(-100), Fin(4))
  /\ obs = ZeroPose2D
  /\ gesture = ZeroPose

(* ------------------------------------------------------------------ *)
(* C12                                                                 *)
(* ------------------------------------------------------------------ *)
\* C12: an activation that published its turn command ran while the enable
\* flag was false (the robot was not moving).
C12_TurnOnlyWhenStopped ==
  (handled.tag = 1 /\ act.result = "published") => enable = FALSE

(* ------------------------------------------------------------------ *)
(* C13                                                                 *)
(* ------------------------------------------------------------------ *)
\* what the current (or last) activation has published
ActPubs == SubSeq(pubs, act.pubs0 + 1, Len(pubs))
\* the three gates of the activation passed, validity as specified
GatesPassed ==
  /\ TargetStageDone /\ InWorkspace(target)
  /\ PertAnswered /\ isfinite(VAt(landscape, 0))
  /\ MontAnswered /\ InWorkspace(goal)
\* the last thing the main loop handled is a "look" activation, now over
LookOver == handled.tag = 1 /\ pc \in {"loop", "spin"}

\* C13: a "look" activation publishes nothing while it runs or when a call
\* fails; once it is over it has published either nothing or the trajectory
\* followed by the turn command, once each, and it has published them
\* exactly when the three validity gates passed and the four services
\* answered; an activation with an invalid result has published nothing.
C13_PathAndTurnTogether ==
  /\ (pc \in ActivePcs \/ act.result = "failed") => ActPubs = <<>>
  /\ LookOver =>
       /\ ActPubs \in {<<>>, <<PathMsg(rrtPath), TurnMsg(cmd_turn)>>}
       /\ ActPubs # <<>> <=> (GatesPassed /\ ActCalls = Pipeline)
       /\ (BadTarget \/ BadLandscape \/ BadGoal) => ActPubs = <<>>

(* ------------------------------------------------------------------ *)
(* C14                                                                 *)
(* ------------------------------------------------------------------ *)
\* the last tag handed to getCmd replaced one that was never tested
LastReplaced ==
  /\ Len(delivered) >= 2
  /\ ~delivered[Len(delivered)].prevEval

\* C14: a tag that is replaced before the main loop tests it causes no
\* service call and no publish; once the loop has handled the tag that
\* replaced it, everything called and published since the dropped tag was
\* delivered is the effect of the last tag alone; and when the pending
\* callbacks run, the command and each stored pose are those of the last
\* message of their queue.
C14_LastDeliveryWins ==
  /\ [](\A i \in 2..Len(delivered) :
          ~delivered[i].prevEval =>
             /\ delivered[i].pubs0 = delivered[i - 1].pubs0
             /\ delivered[i].calls0 = delivered[i - 1].calls0
             /\ delivered[i].cmdBefore = delivered[i - 1].tag)
  /\ []((LastHandled /\ LastReplaced) =>
          LET d == delivered[Len(delivered) - 1]
              t == delivered[Len(delivered)].tag
          IN /\ t = 2 => PubsSince(d) = <<EnableMsg(TRUE)>>
             /\ t = 3 => PubsSince(d) = <<EnableMsg(FALSE)>>
             /\ t \in {2, 3} => CallsSince(d) = <<>>
             /\ t \notin {1, 2, 3} =>
                  PubsSince(d) = <<>> /\ CallsSince(d) = <<>>
             /\ t = 1 =>
                  /\ IsPrefix(CallsSince(d), Pipeline)
                  /\ PubsSince(d) \in
                       {<<>>, <<PathMsg(rrtPath), TurnMsg(cmd_turn)>>})
  /\ [][Draining =>
          /\ q_cmd # <<>> => cmd' = LastOf(q_cmd)
          /\ q_robot # <<>> => robot' = Scaled2D(LastOf(q_robot))
          /\ q_gesture # <<>> => gesture' = Scaled3D(LastOf(q_gesture))
          /\ q_obs # <<>> => obs' = Scaled2D(LastOf(q_obs))]_vars

\* "look" then "go" were delivered between two tests of cmd, with two robot
\* poses: the robot was enabled, no pipeline service was called and the
\* robot pose is the second one
C14_Witness ==
  /\ LastHandled
  /\ Len(delivered) = 2
  /\ ~delivered[2].prevEval
  /\ delivered[1].tag = 1
  /\ delivered[2].tag = 2
  /\ pubs = <<EnableMsg(TRUE)>>
  /\ calls = <<"spat">>
  /\ sentPoses = 2
  /\ robot = Pose2D(Fin(-200), Fin(0), Fin(0))

(* ------------------------------------------------------------------ *)
(* C15                                                                 *)
(* ------------------------------------------------------------------ *)
\* C15 as claimed: at every point of execution, state 1 (TargetValid)
\* implies that the target is finite and within the workspace.
C15_TargetValidAlways == state = 1 => InWorkspace(target)

\* C15: at every point of execution other than between the finiteness test
\* and the bounds test of the target (lines 277-282), state 1 (TargetValid)
\* implies that the target is finite and within the workspace; in
\* particular whenever the state is tested or a service is in flight.
C15_TargetValidAfterCheck ==
  (state = 1 /\ pc # "bounds") => InWorkspace(target)

\* the pertinence mapping is in flight for a valid target, after an
\* activation whose target was rejected
C15_Witness ==
  /\ pc = "pert"
  /\ state = 1
  /\ act.prev = "invalid_target"

(* ------------------------------------------------------------------ *)
(* C16                                                                 *)
(* ------------------------------------------------------------------ *)
\* C16: once the pertinence mapping has answered in an activation, the
\* state was advanced to LandscapeValid (2) and the Monte Carlo service
\* called if and only if the first cell of the returned landscape is
\* finite, whatever the other cells hold; the landscape is then the one
\* passed to the Monte Carlo service, and otherwise the state is Idle (0).
C16_LandscapeGate ==
  /\ PertAnswered =>
       /\ InTrace(2) <=> isfinite(VAt(landscape, 0))
       /\ Len(ActCalls) >= 3 <=> isfinite(VAt(landscape, 0))
       /\ ~isfinite(VAt(landscape, 0)) => state = 0
  /\ pc = "mont" => state = 2 /\ srv_mont.landscape = landscape

\* the Monte Carlo service is in flight with a landscape whose first cell
\* is finite and whose other cells are NaN
C16_Witness ==
  /\ pc = "mont"
  /\ state = 2
  /\ landscape = Run(1, Fin(0)) \o Run(RES * RES - 1, NaN)

(* ------------------------------------------------------------------ *)
(* C17                                                                 *)
(* ------------------------------------------------------------------ *)
\* initialization is over and the spatial reasoner has answered
Initialized == pc \notin {"start", "init", "spat"} /\ failed # "spat"

\* C17: whatever activations ran before, the request of the pertinence
\* mapping in flight holds exactly NZ*RES*RES scalars, the layers that the
\* spatial reasoner returned, and the request of the Monte Carlo service in
\* flight holds exactly RES*RES scalars, the landscape mapped in this
\* activation; the layers are those returned at initialization and no step
\* changes them afterwards.
C17_RequestsDoNotAccumulate ==
  /\ [](pc = "pert" =>
          /\ VLen(srv_pert.matrices) = NZ * RES * RES
          /\ srv_pert.matrices = matrices
          /\ srv_pert.target = target)
  /\ [](pc = "mont" =>
          /\ VLen(srv_mont.landscape) = RES * RES
          /\ srv_mont.landscape = landscape
          /\ srv_mont.P = target)
  /\ [](Initialized =>
          matrices \in MatricesResponses /\ VLen(matrices) = NZ * RES * RES)
  /\ [][Initialized => matrices' = matrices]_vars

\* the Monte Carlo service is in flight in a second activation, the first
\* one ended with an invalid goal
C17_Witness ==
  /\ pc = "mont"
  /\ act.prev = "invalid_goal"
  /\ VLen(srv_mont.landscape) = RES * RES

(* ------------------------------------------------------------------ *)
(* C18                                                                 *)
(* ------------------------------------------------------------------ *)
\* C18: from the end of initialization on, the planner's request holds the
\* workspace region and exactly one obstacle region, the one built from the
\* obstacle pose read at initialization (the center sent to the spatial
\* reasoner); no step changes either of them, whatever obstacle poses are
\* delivered and however many activations have run.
C18_RegionsFixed ==
  /\ [](pc \notin {"start", "init"} =>
          /\ srv_rrts.WS = WorkspaceRegion
          /\ Len(srv_rrts.Obstacles) = 1
          /\ srv_rrts.Obstacles = <<ObstacleRegion(srv_spat.center)>>)
  /\ [][pc \notin {"start", "init"} =>
          /\ srv_rrts'.WS = srv_rrts.WS
          /\ srv_rrts'.Obstacles = srv_rrts.Obstacles
          /\ srv_spat' = srv_spat]_vars

\* the planner is in flight in a second activation, after an obstacle pose
\* was delivered
C18_Witness ==
  /\ pc = "rrts"
  /\ act.prev # "none"
  /\ obs = Pose2D(Fin(-100), Fin(100), Fin(2))

(* ------------------------------------------------------------------ *)
(* C19                                                                 *)
(* ------------------------------------------------------------------ *)
\* the positions of the enable messages published so far
EnableIdx == {i \in 1..Len(pubs) : pubs[i].topic = "enable"}
\* the enable value published last, false if there is none
LastEnable ==
  IF EnableIdx = {} THEN FALSE
  ELSE pubs[CHOOSE i \in EnableIdx : \A j \in EnableIdx : j <= i].data
\* the messages published by the step
NewPubs == SubSeq(pubs', Len(pubs) + 1, Len(pubs'))

\* C19: the enable flag is false until an enable message is published and
\* is the last published value afterwards; a step of a "look" activation
\* leaves the flag unchanged and publishes no enable message; the step that
\* handles "go" or "stop" calls no service, leaves the pipeline state and
\* the pipeline's data unchanged and publishes exactly one message, the
\* enable value true for "go" and false for "stop".
C19_DispatcherIndependent ==
  /\ [](enable = LastEnable)
  /\ [][(pc \in ActivePcs \/ (pc = "loop" /\ cmd = 1)) =>
          /\ enable' = enable
          /\ \A i \in 1..Len(NewPubs) : NewPubs[i].topic # "enable"]_vars
  /\ [][(pc = "loop" /\ pc' = "spin" /\ cmd \in {2, 3}) =>
          /\ calls' = calls
          /\ UNCHANGED <<state, target, goal, landscape, rrtPath, cmd_turn>>
          /\ NewPubs = <<EnableMsg(cmd = 2)>>
          /\ enable' = (cmd = 2)]_vars

\* "go" was handled after an activation that published its path: the
\* robot is enabled and the pipeline state is still PathPublished
C19_Witness ==
  /\ handled.tag = 2
  /\ act.result = "published"
  /\ state = 4
  /\ enable

(* ------------------------------------------------------------------ *)
(* C20                                                                 *)
(* ------------------------------------------------------------------ *)
\* C20: until the pending callbacks have run for the first time, the
\* stored obstacle pose is the default zero pose whatever was sent; the
\* request of the spatial reasoner and the obstacle region of the planner
\* are built from the zero pose, center (0, 0); and as long as no tag was
\* handed to getCmd (which holds throughout the first loop iteration) no
\* command is handled, no pipeline service called and nothing published.
C20_NoDeliveryBeforeInit ==
  /\ pc \in {"start", "init", "spat"} =>
       /\ obs = ZeroPose2D /\ robot = ZeroPose2D /\ gesture = ZeroPose
       /\ delivered = <<>>
  /\ pc \notin {"start", "init"} =>
       /\ srv_spat.center = ZeroPose2D
       /\ srv_rrts.Obstacles = <<ObstacleRegion(ZeroPose2D)>>
  /\ delivered = <<>> =>
       /\ cmd = 0
       /\ handled.tag = 0
       /\ act.result = "none"
       /\ pubs = <<>>
       /\ Len(calls) <= 1

\* the first loop iteration has tested cmd while an obstacle pose and a
\* command wait in their queues
C20_Witness ==
  /\ pc = "spin"
  /\ delivered = <<>>
  /\ q_obs # <<>>
  /\ q_cmd # <<>>
  /\ srv_spat.center = ZeroPose2D

====
